---- MODULE Spec2Model ----
(***************************************************************************)
(* A model of photomosaic.py: the balanced random assignment               *)
(* (make_balanced_assignments), the target preparation (load_target), the  *)
(* tile loading (load_tiles), the mosaic builder (build_mosaic_random) and *)
(* the "mean" colour transfer with its output stage (color_match_pixels,   *)
(* _clip_back).                                                            *)
(*                                                                         *)
(* Python lists are TLA+ sequences: list element k is sequence element     *)
(* k + 1.  Image contents are not modelled in the builder: a canvas pixel  *)
(* records the sequence of tile indices pasted over it.                    *)
(***************************************************************************)
EXTENDS Integers, Sequences, FiniteSets, TLC

VARIABLES
    entry,          \* which function the caller invoked
    pc,             \* position of the program
    err,            \* the exception that ended the call ("none" when none)
    raised_in,      \* the function whose line raised it
    img_w, img_h,   \* size of the decoded target image (load_target)
    enlargement,    \* --enlargement
    dir_files,      \* the files under the tiles directory: TRUE = decodes
    W, H,           \* target_big.size
    tile_size,      \* --tile-size
    num_tiles,      \* len(tiles) / the num_tiles argument
    seed,           \* --seed
    total_cells,    \* x_count * y_count / the total_cells argument
    x_count, y_count,
    rng,            \* state of the build's random.Random instance
    assignments,    \* the list returned by make_balanced_assignments
    canvas,         \* mosaic: pixel -> tile indices pasted over it, in order
    yi, xi,         \* loop variables of the build
    done,           \* cells processed
    saved,          \* mosaic.save was called
    runs,           \* history: the (seed, tiles, cells, assignment) of each build
    mode,           \* colour matching mode
    tile_pixels,    \* color_match_pixels: the tile's pixels
    target_pixels,  \* color_match_pixels: the target patch's pixels
    out_arr,        \* the float array handed to _clip_back (numerators over n)
    matched_px      \* the list _clip_back returns

vars == <<entry, pc, err, raised_in, img_w, img_h, enlargement, dir_files, W, H,
          tile_size, num_tiles, seed, total_cells, x_count, y_count, rng,
          assignments, canvas, yi, xi, done, saved, runs, mode, tile_pixels,
          target_pixels, out_arr, matched_px>>

buildVars == <<W, H, tile_size, num_tiles, seed, total_cells, x_count, y_count,
               rng, assignments, canvas, yi, xi, done, saved, runs>>
mainVars == <<img_w, img_h, enlargement, dir_files>>
colorVars == <<mode, tile_pixels, target_pixels, out_arr, matched_px>>

(***************************************************************************)
(* Bounds of the model.                                                    *)
(***************************************************************************)
MaxTiles == 3       \* largest tile count
MinTiles == 2       \* the num_tiles argument ranges over -MinTiles..MaxTiles
MaxCells == 6       \* largest total_cells argument of a direct call
MaxSeed == 719      \* seeds of a direct call: 0..MaxSeed (6! streams)
MaxBuildSeed == 2   \* seeds of a build: 0..MaxBuildSeed
MaxDim == 4         \* largest width/height of a target handed to the build
MaxTile == 2        \* largest tile size
MaxSrc == 2         \* largest width/height of the decoded target image
MaxEnl == 2         \* largest enlargement
MaxBuilds == 2      \* builds run one after another in one process
RepW == 3           \* widest target of the repeated builds (height 1)
RepTiles == 2       \* largest tile count of the repeated builds
MaxPixels == 3      \* longest pixel buffer of a colour transfer

Min(a, b) == IF a < b THEN a ELSE b

(***************************************************************************)
(* random.Random: the generator is a deterministic stream fixed by its     *)
(* state.  The state is a natural number read as mixed-radix digits:       *)
(* _randbelow(k) returns state mod k and leaves state div k.  Seeding      *)
(* fixes the state, so seeds 0..L!-1 yield every permutation of a list of  *)
(* length L.                                                               *)
(***************************************************************************)
RandomSeeded(s) == s

RandBelow(state, k) == state % k

RngAfter(state, k) == state \div k

\* random.shuffle(x): for i in reversed(range(1, len(x))): j = randbelow(i+1);
\* x[i], x[j] = x[j], x[i]
RECURSIVE ShuffleFrom(_, _, _)
ShuffleFrom(x, i, state) ==
    IF i < 1 THEN [list |-> x, rng |-> state]
    ELSE LET j == RandBelow(state, i + 1)
             swapped == [x EXCEPT ![i + 1] = x[j + 1], ![j + 1] = x[i + 1]]
         IN ShuffleFrom(swapped, i - 1, RngAfter(state, i + 1))

Shuffle(x, state) == ShuffleFrom(x, Len(x) - 1, state)

(***************************************************************************)
(* make_balanced_assignments                                               *)
(***************************************************************************)
\* list(range(n))
PyRange(n) == IF n <= 0 THEN << >> ELSE [i \in 1..n |-> i - 1]

\* lst * k: the empty list when k <= 0
RECURSIVE ListTimes(_, _)
ListTimes(lst, k) == IF k <= 0 THEN << >> ELSE lst \o ListTimes(lst, k - 1)

\* base[:m] for m >= 0
Prefix(lst, m) == SubSeq(lst, 1, Min(m, Len(lst)))

FloorDivWrong(m, n) == IF n > 0 THEN m \div n ELSE -(m \div (-n))

\* math.ceil(m / n) for n # 0 and m >= 0 (the quotient rounds towards +inf)
MathCeilDiv(m, n) == IF n > 0 THEN -((-m) \div n) ELSE -(m \div (-n))

\* The call: raises ZeroDivisionError at "total_cells / num_tiles" when
\* num_tiles = 0, and otherwise returns the trimmed shuffled list.
MakeBalancedAssignments(n, m, state) ==
    IF n = 0
    THEN [raised |-> "ZeroDivisionError", value |-> << >>, rng |-> state]
    ELSE LET repeats == MathCeilDiv(m, n)
             base == ListTimes(PyRange(n), repeats)
             sh == Shuffle(base, state)
         IN [raised |-> "none", value |-> Prefix(sh.list, m), rng |-> sh.rng]

\* how often tile index t occurs in a list
Count(lst, t) == Cardinality({k \in 1..Len(lst) : lst[k] = t})

(***************************************************************************)
(* Direct call of make_balanced_assignments(num_tiles, total_cells, rng)   *)
(***************************************************************************)
CallMakeBalancedAssignments ==
    /\ pc = "call_assign"
    /\ LET r == MakeBalancedAssignments(num_tiles, total_cells, rng)
       IN IF r.raised # "none"
          THEN /\ pc' = "failed"
               /\ err' = r.raised
               /\ raised_in' = "make_balanced_assignments"
               /\ UNCHANGED <<assignments, rng>>
          ELSE /\ pc' = "ret_assign"
               /\ assignments' = r.value
               /\ rng' = r.rng
               /\ UNCHANGED <<err, raised_in>>
    /\ UNCHANGED <<entry, W, H, tile_size, num_tiles, seed, total_cells,
                   x_count, y_count, canvas, yi, xi, done, saved, runs>>
    /\ UNCHANGED <<mainVars, colorVars>>

(***************************************************************************)
(* load_target and load_tiles (main)                                       *)
(***************************************************************************)
\* size of the image load_target returns for a w x h enlarged image
CroppedSize(w, h, ts) ==
    LET w_diff == (w % ts) \div 2
        h_diff == (h % ts) \div 2
    IN IF w_diff # 0 \/ h_diff # 0
       THEN <<(w - w_diff) - w_diff, (h - h_diff) - h_diff>>
       ELSE <<w, h>>

LoadTarget ==
    /\ pc = "main_target"
    /\ LET w == img_w * enlargement
           h == img_h * enlargement
           size == CroppedSize(w, h, tile_size)
       IN /\ W' = size[1]
          /\ H' = size[2]
    /\ pc' = "main_tiles"
    /\ UNCHANGED <<entry, err, raised_in, tile_size, num_tiles, seed,
                   total_cells, x_count, y_count, rng, assignments, canvas,
                   yi, xi, done, saved, runs>>
    /\ UNCHANGED <<mainVars, colorVars>>

\* the files that decode become tiles, the others are skipped
LoadedTiles(files) == Cardinality({k \in 1..Len(files) : files[k]})

LoadTiles ==
    /\ pc = "main_tiles"
    /\ LET n == LoadedTiles(dir_files)
       IN IF n = 0
          THEN /\ pc' = "failed"
               /\ err' = "RuntimeError"
               /\ raised_in' = "load_tiles"
               /\ UNCHANGED num_tiles
          ELSE /\ pc' = "call_build"
               /\ num_tiles' = n
               /\ UNCHANGED <<err, raised_in>>
    /\ UNCHANGED <<entry, W, H, tile_size, seed, total_cells, x_count, y_count,
                   rng, assignments, canvas, yi, xi, done, saved, runs>>
    /\ UNCHANGED <<mainVars, colorVars>>

(***************************************************************************)
(* build_mosaic_random                                                     *)
(***************************************************************************)
\* Image.new("RGB", (w, h)): every pixel blank, nothing pasted over it
NewImage(w, h) == [p \in (0..(w - 1)) \X (0..(h - 1)) |-> << >>]

SharedGenerator(s) == IF runs = << >> THEN RandomSeeded(s) ELSE rng

\* rng = random.Random(seed): a generator of the build's own
BuildGenerator(s) == RandomSeeded(s)

\* idx = yi * x_count + xi
CellIdx(row, col, cols) == row * cols + col

BoxRowFromColumn(col, row, ts) ==
    [x0 |-> col * ts, y0 |-> col * ts, x1 |-> col * ts + ts, y1 |-> col * ts + ts]

\* box = (tx, ty, tx + tile_size, ty + tile_size)
Box(col, row, ts) ==
    LET tx == col * ts
        ty == row * ts
    IN [x0 |-> tx, y0 |-> ty, x1 |-> tx + ts, y1 |-> ty + ts]

InBox(p, box) ==
    /\ box.x0 <= p[1] /\ p[1] < box.x1
    /\ box.y0 <= p[2] /\ p[2] < box.y1

\* mosaic.paste(tile_img, box): the pixels of the box that lie on the canvas
Paste(cv, box, tile_idx) ==
    [p \in DOMAIN cv |-> IF InBox(p, box) THEN Append(cv[p], tile_idx) ELSE cv[p]]

\* lines 147-159: the grid, the generator, the assignment, the blank canvas
BuildStart ==
    /\ pc = "call_build"
    /\ LET xc == W \div tile_size
           yc == H \div tile_size
           cells == xc * yc
           r == MakeBalancedAssignments(num_tiles, cells, BuildGenerator(seed))
       IN /\ x_count' = xc
          /\ y_count' = yc
          /\ total_cells' = cells
          /\ IF r.raised # "none"
             THEN /\ pc' = "failed"
                  /\ err' = r.raised
                  /\ raised_in' = "make_balanced_assignments"
                  /\ UNCHANGED <<rng, assignments, canvas, runs>>
             ELSE /\ pc' = "loop"
                  /\ rng' = r.rng
                  /\ assignments' = r.value
                  /\ canvas' = NewImage(W, H)
                  /\ runs' = Append(runs, [seed |-> seed, num_tiles |-> num_tiles,
                                           total_cells |-> cells,
                                           assignments |-> r.value])
                  /\ UNCHANGED <<err, raised_in>>
    /\ yi' = 0
    /\ xi' = 0
    /\ done' = 0
    /\ UNCHANGED <<entry, W, H, tile_size, num_tiles, seed, saved>>
    /\ UNCHANGED <<mainVars, colorVars>>

\* one pass through the body of the inner loop (lines 165-188)
BuildCell ==
    /\ pc = "loop"
    /\ yi < y_count
    /\ xi < x_count
    /\ LET idx == CellIdx(yi, xi, x_count)
           box == Box(xi, yi, tile_size)
           tile_idx == assignments[idx + 1]
       IN canvas' = Paste(canvas, box, tile_idx)
    /\ done' = done + 1
    /\ IF xi + 1 < x_count
       THEN /\ xi' = xi + 1
            /\ yi' = yi
       ELSE /\ xi' = 0
            /\ yi' = yi + 1
    /\ UNCHANGED <<entry, pc, err, raised_in, W, H, tile_size, num_tiles, seed,
                   total_cells, x_count, y_count, rng, assignments, saved, runs>>
    /\ UNCHANGED <<mainVars, colorVars>>

\* the loops are exhausted: mosaic.save(out_path, quality=95)
BuildSave ==
    /\ pc = "loop"
    /\ ~(yi < y_count /\ xi < x_count)
    /\ saved' = TRUE
    /\ pc' = "done"
    /\ UNCHANGED <<entry, err, raised_in, W, H, tile_size, num_tiles, seed,
                   total_cells, x_count, y_count, rng, assignments, canvas,
                   yi, xi, done, runs>>
    /\ UNCHANGED <<mainVars, colorVars>>

(***************************************************************************)
(* color_match_pixels, mode "mean", and _clip_back                         *)
(*                                                                         *)
(* The float arrays are exact rationals here: a value of the array handed  *)
(* to _clip_back is a numerator over the common denominator                *)
(* len(tile_pixels) * len(target_pixels).  (The sums of 8-bit values are   *)
(* exact in float32 for any tile the program handles.)  The modes          *)
(* "meanstd" and "luma" need square roots and are not modelled.            *)
(***************************************************************************)
MaxChannel == 255

Channels == 1..3

\* the colours the pixel buffers are drawn from
Colors == {<<0, 0, 0>>, <<255, 255, 255>>, <<254, 0, 128>>, <<1, 2, 3>>}

\* arr.sum(axis=0)[c] of an array of 8-bit pixels
RECURSIVE ChannelSum(_, _)
ChannelSum(pixels, c) ==
    IF pixels = << >> THEN 0
    ELSE Head(pixels)[c] + ChannelSum(Tail(pixels), c)

MeanShiftReversed(t, g, c) == ChannelSum(t, c) * Len(g) - ChannelSum(g, c) * Len(t)

\* (mu_g - mu_t)[c] as a numerator over len(t) * len(g)
MeanShift(t, g, c) == ChannelSum(g, c) * Len(t) - ChannelSum(t, c) * Len(g)

\* out = t + (mu_g - mu_t), as numerators over len(t) * len(g)
MeanTransform(t, g) ==
    [i \in 1..Len(t) |->
        [c \in Channels |-> t[i][c] * (Len(t) * Len(g)) + MeanShift(t, g, c)]]

\* np.clip(v, 0, 255) of the value num / den, as a numerator over den
ClipNum(num, den) ==
    IF num < 0 THEN 0
    ELSE IF num > MaxChannel * den THEN MaxChannel * den
    ELSE num

\* np.clip(v, 0, 255).astype(np.uint8): the cast drops the fraction
ClipChannel(num, den) == ClipNum(num, den) \div den

ClipBack(arr, den) ==
    [i \in 1..Len(arr) |-> [c \in Channels |-> ClipChannel(arr[i][c], den)]]

Den == Len(tile_pixels) * Len(target_pixels)

\* lines 59-77: the arrays, the means, the shifted array
ColorMatchMean ==
    /\ pc = "call_color"
    /\ mode = "mean"
    /\ out_arr' = MeanTransform(tile_pixels, target_pixels)
    /\ pc' = "clip"
    /\ UNCHANGED <<entry, err, raised_in, mode, tile_pixels, target_pixels, matched_px>>
    /\ UNCHANGED <<mainVars, buildVars>>

\* line 78: return _clip_back(out)
ClipBackReturn ==
    /\ pc = "clip"
    /\ matched_px' = ClipBack(out_arr, Den)
    /\ pc' = "ret_color"
    /\ UNCHANGED <<entry, err, raised_in, mode, tile_pixels, target_pixels, out_arr>>
    /\ UNCHANGED <<mainVars, buildVars>>

(***************************************************************************)
(* Initial states                                                          *)
(***************************************************************************)
\* sequences over S of length at most n
RECURSIVE SeqsUpTo(_, _)
SeqsUpTo(S, n) ==
    IF n = 0 THEN {<< >>}
    ELSE LET shorter == SeqsUpTo(S, n - 1)
         IN shorter \cup {Append(q, e) : q \in {t \in shorter : Len(t) = n - 1}, e \in S}

NoError == err = "none" /\ raised_in = "none"

LocalsUnset ==
    /\ x_count = 0 /\ y_count = 0
    /\ assignments = << >>
    /\ canvas = << >>
    /\ yi = 0 /\ xi = 0 /\ done = 0
    /\ saved = FALSE
    /\ runs = << >>

MainUnused ==
    /\ img_w = 0 /\ img_h = 0 /\ enlargement = 1 /\ dir_files = << >>

ColorUnused ==
    /\ mode = "none"
    /\ tile_pixels = << >> /\ target_pixels = << >>
    /\ out_arr = << >> /\ matched_px = << >>

\* a caller hands make_balanced_assignments a freshly seeded generator
InitAssign ==
    /\ entry = "assign" /\ pc = "call_assign" /\ NoError
    /\ num_tiles \in (-MinTiles)..MaxTiles
    /\ total_cells \in 0..MaxCells
    /\ seed \in 0..MaxSeed
    /\ rng = RandomSeeded(seed)
    /\ W = 0 /\ H = 0 /\ tile_size = 1
    /\ LocalsUnset /\ MainUnused /\ ColorUnused

\* a caller hands build_mosaic_random a target and a tile list of its own
InitBuild ==
    /\ entry = "build" /\ pc = "call_build" /\ NoError
    /\ W \in 0..MaxDim
    /\ H \in 0..MaxDim
    /\ tile_size \in 1..MaxTile
    /\ num_tiles \in 0..MaxTiles
    /\ seed \in 0..MaxBuildSeed
    /\ total_cells = 0 /\ rng = 0
    /\ LocalsUnset /\ MainUnused /\ ColorUnused

\* main(): the command line is parsed, nothing is loaded yet
InitMain ==
    /\ entry = "main" /\ pc = "main_target" /\ NoError
    /\ img_w \in 1..MaxSrc
    /\ img_h \in 1..MaxSrc
    /\ enlargement \in 1..MaxEnl
    /\ tile_size \in 1..MaxTile
    /\ dir_files \in SeqsUpTo(BOOLEAN, MaxTiles)
    /\ seed \in 0..MaxBuildSeed
    /\ W = 0 /\ H = 0 /\ num_tiles = 0
    /\ total_cells = 0 /\ rng = 0
    /\ LocalsUnset /\ ColorUnused

Init == InitAssign \/ InitBuild \/ InitMain

Next ==
    \/ CallMakeBalancedAssignments
    \/ LoadTarget
    \/ LoadTiles
    \/ BuildStart
    \/ BuildCell
    \/ BuildSave

Spec == Init /\ [][Next]_vars

(***************************************************************************)
(* Repeated builds in one process                                          *)
(***************************************************************************)
\* the caller runs another build once one has finished
CallBuildAgain ==
    /\ pc = "done"
    /\ Len(runs) < MaxBuilds
    /\ W' \in 1..RepW
    /\ num_tiles' \in 1..RepTiles
    /\ seed' \in 0..MaxBuildSeed
    /\ saved' = FALSE
    /\ pc' = "call_build"
    /\ UNCHANGED <<entry, err, raised_in, H, tile_size, total_cells, x_count,
                   y_count, rng, assignments, canvas, yi, xi, done, runs>>
    /\ UNCHANGED <<mainVars, colorVars>>

InitRepeat ==
    /\ entry = "build" /\ pc = "call_build" /\ NoError
    /\ W \in 1..RepW
    /\ H = 1
    /\ tile_size = 1
    /\ num_tiles \in 1..RepTiles
    /\ seed \in 0..MaxBuildSeed
    /\ total_cells = 0 /\ rng = 0
    /\ LocalsUnset /\ MainUnused /\ ColorUnused

NextRepeat ==
    \/ CallBuildAgain
    \/ BuildStart
    \/ BuildCell
    \/ BuildSave

SpecRepeat == InitRepeat /\ [][NextRepeat]_vars

(***************************************************************************)
(* Colour transfer of one tile onto one patch                              *)
(***************************************************************************)
\* buffers of exactly n pixels
PixelBuffers(n) == {q \in SeqsUpTo(Colors, n) : Len(q) = n}

InitColor ==
    /\ entry = "color" /\ pc = "call_color" /\ NoError
    /\ mode = "mean"
    /\ \E n \in 1..MaxPixels :
          /\ tile_pixels \in PixelBuffers(n)
          /\ target_pixels \in PixelBuffers(n)
    /\ out_arr = << >> /\ matched_px = << >>
    /\ W = 0 /\ H = 0 /\ tile_size = 1 /\ num_tiles = 0 /\ seed = 0
    /\ total_cells = 0 /\ rng = 0
    /\ LocalsUnset /\ MainUnused

NextColor ==
    \/ ColorMatchMean
    \/ ClipBackReturn

SpecColor == InitColor /\ [][NextColor]_vars

(***************************************************************************)
(* Properties                                                              *)
(***************************************************************************)
Abs(a) == IF a < 0 THEN -a ELSE a

\* make_balanced_assignments has returned (directly or inside a build)
AssignmentReturned == pc \in {"ret_assign", "loop", "done"}

\* build_mosaic_random has been entered and has got past its first lines
BuildEntered ==
    /\ entry \in {"build", "main"}
    /\ \/ pc \in {"loop", "done"}
       \/ pc = "failed" /\ raised_in # "load_tiles"

TargetIsMultiple == W % tile_size = 0 /\ H % tile_size = 0

\* C1: for N > 0 tiles and M >= 0 cells, each index 0..N-1 occurs floor(M/N)
\* or ceil(M/N) times in the returned assignment, whatever the shuffle did.
C1_Balanced ==
    (AssignmentReturned /\ num_tiles > 0) =>
        \A t \in 0..(num_tiles - 1) :
            Count(assignments, t) \in
                {total_cells \div num_tiles, -((-total_cells) \div num_tiles)}

\* C2: for N > 0 and M >= 0 the returned assignment has exactly M elements,
\* each in 0..N-1, and the lookups assignments[idx] and tiles_pixels[tile_idx]
\* of the build loop are in range.
C2_LengthAndRange ==
    /\ (AssignmentReturned /\ num_tiles > 0) =>
          /\ Len(assignments) = total_cells
          /\ \A k \in 1..Len(assignments) : assignments[k] \in 0..(num_tiles - 1)
    /\ (pc = "loop" /\ yi < y_count /\ xi < x_count) =>
          /\ CellIdx(yi, xi, x_count) \in 0..(Len(assignments) - 1)
          /\ assignments[CellIdx(yi, xi, x_count) + 1] \in 0..(num_tiles - 1)

\* a direct call with fewer cells than tiles has returned its two elements
C2_Witness ==
    /\ pc = "ret_assign" /\ num_tiles = 3 /\ total_cells = 2
    /\ Len(assignments) = 2 /\ assignments[1] # 0

\* C3: a build whose target width or height is no multiple of the tile size
\* fails: no assignment is generated, no cell is processed, nothing is saved.
C3_InvalidGeometryRejected ==
    (BuildEntered /\ ~TargetIsMultiple) =>
        /\ pc = "failed"
        /\ assignments = << >>
        /\ done = 0
        /\ ~saved

\* C4: a build with an empty tile set fails with an error of the build's own,
\* raised before the assignment generator is invoked, and writes no pixel.
C4_EmptyTileSetRejected ==
    (BuildEntered /\ num_tiles = 0) =>
        /\ pc = "failed"
        /\ raised_in = "build_mosaic_random"
        /\ canvas = << >>

\* C5: make_balanced_assignments called with N <= 0 fails; it never returns
\* a list.
C5_NonPositiveRejected ==
    (entry = "assign" /\ num_tiles <= 0 /\ pc # "call_assign") => pc = "failed"

\* C6: with a target whose sides are multiples of the tile size and at least
\* one tile, when the build has finished every pixel of the W x H canvas has
\* been written exactly once, by the cell it lies in, with the tile the
\* assignment gives at the cell's row-major index; every cell was processed.
C6_EveryPixelOnce ==
    (BuildEntered /\ pc = "done" /\ TargetIsMultiple /\ num_tiles > 0) =>
        /\ DOMAIN canvas = (0..(W - 1)) \X (0..(H - 1))
        /\ done = total_cells
        /\ total_cells * tile_size * tile_size = W * H
        /\ \A p \in DOMAIN canvas :
              canvas[p] = <<assignments[(p[2] \div tile_size) * x_count
                                        + (p[1] \div tile_size) + 1]>>

\* a finished build of a 2 x 2 grid of 2 x 2 tiles that used several tiles
C6_Witness ==
    /\ BuildEntered /\ pc = "done" /\ TargetIsMultiple
    /\ tile_size = 2 /\ x_count = 2 /\ y_count = 2
    /\ \E j, k \in 1..Len(assignments) : assignments[j] # assignments[k]

\* C7: builds of one process that use the same seed, the same number of tiles
\* and the same number of cells obtain the same assignment, in whatever order
\* they run and whatever builds run in between.
C7_SameSeedSameAssignment ==
    \A j, k \in 1..Len(runs) :
        (/\ runs[j].seed = runs[k].seed
         /\ runs[j].num_tiles = runs[k].num_tiles
         /\ runs[j].total_cells = runs[k].total_cells)
        => runs[j].assignments = runs[k].assignments

\* a second build has drawn its assignment with the arguments of the first,
\* and the shuffle had something to permute
C7_Witness ==
    /\ Len(runs) >= 2
    /\ runs[1].seed = runs[2].seed /\ runs[1].seed > 0
    /\ runs[1].num_tiles = runs[2].num_tiles /\ runs[1].num_tiles >= 2
    /\ runs[1].total_cells = runs[2].total_cells /\ runs[1].total_cells >= 2

\* per channel: |mean(matched_px) - mean(target_pixels)| < 1
MeanWithinOneLevel ==
    \A c \in Channels :
        Abs(ChannelSum(matched_px, c) * Len(target_pixels)
            - ChannelSum(target_pixels, c) * Len(matched_px))
          < Len(matched_px) * Len(target_pixels)

\* no value tile + (target mean - tile mean) lies below 0 or above 255
ShiftStaysInRange ==
    \A i \in 1..Len(tile_pixels) : \A c \in Channels :
        LET num == tile_pixels[i][c] * Den
                   + ChannelSum(target_pixels, c) * Len(tile_pixels)
                   - ChannelSum(tile_pixels, c) * Len(target_pixels)
        IN 0 <= num /\ num <= MaxChannel * Den

\* C8 (as stated): in mode "mean" the returned buffer's mean is, in each
\* channel, within less than one level of the target's mean, also when the
\* shift pushes values below 0 or above 255.
C8_MeanMatchesAlways ==
    (pc = "ret_color" /\ mode = "mean") => MeanWithinOneLevel

\* C8 (amended): in mode "mean", when no shifted value leaves 0..255, the
\* returned buffer's mean is, in each channel, within less than one level of
\* the target's mean.
C8_MeanMatchesUnclipped ==
    (pc = "ret_color" /\ mode = "mean" /\ ShiftStaysInRange) => MeanWithinOneLevel

\* a transfer with a fractional, non-zero shift in every channel that stays
\* in range has returned
C8_Witness ==
    /\ pc = "ret_color" /\ mode = "mean" /\ ShiftStaysInRange
    /\ \A c \in Channels : MeanShift(tile_pixels, target_pixels, c) % Den # 0

\* C9: _clip_back clamps each value to 0..255 and rounds it to the nearest
\* integer: every returned channel is an integer in 0..255 at most 0.5 away
\* from the clamped value.
C9_ClampThenRoundNearest ==
    pc = "ret_color" =>
        \A i \in 1..Len(matched_px) : \A c \in Channels :
            /\ matched_px[i][c] \in 0..MaxChannel
            /\ 2 * Abs(matched_px[i][c] * Den - ClipNum(out_arr[i][c], Den)) <= Den

\* C10: the image load_target returns has a width and a height that are
\* multiples of the tile size.
C10_TargetMultipleOfTile ==
    (entry = "main" /\ pc # "main_target") => TargetIsMultiple

====
